---- MODULE Spec2Model ----
(***************************************************************************)
(* ChaCha20-Poly1305 (RFC 7539) as composed in src/aead/chacha20_poly1305.rs *)
(* of ring: the algorithm descriptor, the key initialiser, the seal and open *)
(* entry points, the shared aead() body, the 16-byte padding helper and the  *)
(* one-time-key derivation.  Bytes are integers 0..255, byte strings are     *)
(* sequences, 64-bit values are 8 little-endian bytes.  The stream cipher    *)
(* and the MAC live in other files of the crate: the cipher is a             *)
(* keystream generator XORed byte by byte, the MAC is the log of the calls   *)
(* made on its context and its tag is the pair (one-time key, bytes fed).    *)
(***************************************************************************)
EXTENDS Integers, Sequences, FiniteSets, TLC

(* ------------------------------ bounds --------------------------------- *)

\* longest key byte string handed to the initialiser
MaxKeyLen == 33
\* longest associated data
MaxAdLen == 17
\* longest in-out buffer
MaxLen == 18
\* largest in_prefix_len handed to open
MaxPrefix == 2

(* ------------------------ program constants ---------------------------- *)

\* super::BLOCK_LEN
BLOCK_LEN == 16
\* chacha::KEY_LEN ("The keys are 256 bits long")
KEY_LEN == 32
\* poly1305::KEY_BLOCKS
KEY_BLOCKS == 2
\* the block length handed to max_input_len by the descriptor
CHACHA_BLOCK_LEN == 64
\* the overhead blocks per nonce handed to max_input_len by the descriptor
OVERHEAD_BLOCKS == 1

(* --------------------------- byte strings ------------------------------ *)

Byte == 0..255

RECURSIVE XorBits(_, _, _)
XorBits(a, b, k) ==
    IF k = 0 THEN 0
    ELSE (((a % 2) + (b % 2)) % 2) + 2 * XorBits(a \div 2, b \div 2, k - 1)

Xor8(a, b) == XorBits(a, b, 8)

Zeros(n) == [i \in 1..n |-> 0]

Rep(b, n) == [i \in 1..n |-> b]

Pattern(seed, n) == [i \in 1..n |-> (seed + 37 * i) % 256]

\* &s[n..] of a slice: the bytes from offset n on (n <= len)
SliceFrom(s, n) == SubSeq(s, n + 1, Len(s))

\* &s[..n]
SliceTo(s, n) == SubSeq(s, 1, n)

(* ----------------------- 64-bit unsigned values ------------------------ *)
(* A u64 is its 8 little-endian bytes; a wide result carries the bytes and *)
(* the carry or borrow out of the top byte.                                *)

RECURSIVE LEBytes(_, _)
LEBytes(n, k) == IF k = 0 THEN <<>> ELSE <<n % 256>> \o LEBytes(n \div 256, k - 1)

\* polyfill::u64_from_usize followed by LittleEndian::from: the 8 bytes of n
U64LE(n) == LEBytes(n, 8)

RECURSIVE AddSmallFrom(_, _, _)
AddSmallFrom(limbs, i, carry) ==
    IF i > Len(limbs) THEN [limbs |-> <<>>, carry |-> carry]
    ELSE LET t == limbs[i] + carry
             rest == AddSmallFrom(limbs, i + 1, t \div 256)
         IN [limbs |-> <<t % 256>> \o rest.limbs, carry |-> rest.carry]

RECURSIVE MulSmallFrom(_, _, _, _)
MulSmallFrom(limbs, m, i, carry) ==
    IF i > Len(limbs) THEN [limbs |-> <<>>, carry |-> carry]
    ELSE LET t == limbs[i] * m + carry
             rest == MulSmallFrom(limbs, m, i + 1, t \div 256)
         IN [limbs |-> <<t % 256>> \o rest.limbs, carry |-> rest.carry]

RECURSIVE SubSmallFrom(_, _, _)
SubSmallFrom(limbs, i, borrow) ==
    IF i > Len(limbs) THEN [limbs |-> <<>>, carry |-> borrow]
    ELSE LET t == limbs[i] - borrow
             b == IF t < 0 THEN 1 ELSE 0
             rest == SubSmallFrom(limbs, i + 1, b)
         IN [limbs |-> <<t + 256 * b>> \o rest.limbs, carry |-> rest.carry]

\* 1u64 << 32
OneShl32 == <<0, 0, 0, 0, 1, 0, 0, 0>>

\* a decimal literal (most significant digit first) as a u64
RECURSIVE U64FromDecimal(_)
U64FromDecimal(digits) ==
    IF digits = <<>> THEN [limbs |-> Zeros(8), carry |-> 0]
    ELSE LET hi == U64FromDecimal(SubSeq(digits, 1, Len(digits) - 1))
             m == MulSmallFrom(hi.limbs, 10, 1, 0)
             a == AddSmallFrom(m.limbs, 1, digits[Len(digits)])
         IN [limbs |-> a.limbs, carry |-> hi.carry + m.carry + a.carry]

\* super::max_input_len: ((1u64 << 32) - overhead_blocks_per_nonce) * block_len,
\* the largest input that does not overflow the 32-bit block counter
max_input_len(block_len, overhead_blocks_per_nonce) ==
    LET d == SubSmallFrom(OneShl32, 1, overhead_blocks_per_nonce)
        p == MulSmallFrom(d.limbs, block_len, 1, 0)
    IN [limbs |-> p.limbs, carry |-> d.carry + p.carry]

(* --------------------------- stream cipher ----------------------------- *)

\* Counter::zero(nonce)
CounterZero(n) == [ctr |-> 0, nonce |-> n]

\* Counter::increment: the Iv of the current block, and the counter advanced
CounterIncrement(c) == [iv |-> c, counter |-> [c EXCEPT !.ctr = c.ctr + 1]]

KeyMix(k) == (k[1] * 31 + k[KEY_LEN] * 5 + 11) % 256

NonceMix(n) == (n[1] * 17 + n[Len(n)] * 3 + 7) % 256

\* byte j (0..63) of the keystream block at block counter c
KeystreamByte(km, nm, c, j) == (km + nm + 89 * c + 7 * j + c * j + 101) % 256

\* byte at offset pos (from 0) of the keystream that starts at block iv.ctr
KeystreamAt(k, iv, pos) ==
    KeystreamByte(KeyMix(k), NonceMix(iv.nonce),
                  iv.ctr + (pos \div CHACHA_BLOCK_LEN), pos % CHACHA_BLOCK_LEN)

\* chacha::chacha20_xor_in_place
chacha20_xor_in_place(k, iv, buf) ==
    [i \in 1..Len(buf) |-> Xor8(buf[i], KeystreamAt(k, iv, i - 1))]

\* chacha::chacha20_xor_overlapping: one buffer, input read from offset
\* in_prefix_len, output written from offset 0, one byte after the other from
\* the front.  ByteAfter is the byte at index pos once the first t output bytes
\* have been written: output byte pos is computed from the byte that stands at
\* pos + in_prefix_len when its turn comes, after pos - 1 writes.
RECURSIVE ByteAfter(_, _, _, _, _, _)
ByteAfter(k, iv, buf, in_prefix_len, pos, t) ==
    IF pos <= t
    THEN Xor8(ByteAfter(k, iv, buf, in_prefix_len, pos + in_prefix_len, pos - 1),
              KeystreamAt(k, iv, pos - 1))
    ELSE buf[pos]

chacha20_xor_overlapping(k, iv, buf, in_prefix_len) ==
    [i \in 1..Len(buf) |-> ByteAfter(k, iv, buf, in_prefix_len, i, Len(buf) - in_prefix_len)]

(* -------------------------------- MAC ---------------------------------- *)

\* poly1305::Context::from_key
Poly1305FromKey(k) == [key |-> k, calls |-> <<>>]

\* poly1305::Context::update_blocks: the whole-block path
update_blocks(c, data) ==
    [c EXCEPT !.calls = Append(c.calls, [kind |-> "blocks", data |-> data])]

\* poly1305::Context::update_block(block, Pad::Pad): one 16-byte block
update_block(c, block) ==
    [c EXCEPT !.calls = Append(c.calls, [kind |-> "block", data |-> block])]

RECURSIVE ConcatData(_)
ConcatData(calls) ==
    IF calls = <<>> THEN <<>> ELSE Head(calls).data \o ConcatData(Tail(calls))

\* every byte the context has consumed, in order
MacInput(c) == ConcatData(c.calls)

\* poly1305::Context::finish: the tag, determined by the one-time key and
\* the bytes consumed
PolyFinish(c) == [key |-> c.key, msg |-> MacInput(c)]

(* ------------------------- the program's code --------------------------- *)

\* the descriptor with no block set aside for the one-time key
CHACHA20_POLY1305_NoOverhead ==
    [key_len |-> KEY_LEN,
     id |-> "CHACHA20_POLY1305",
     max_input_len |-> max_input_len(CHACHA_BLOCK_LEN, 0)]

\* the static CHACHA20_POLY1305 descriptor
CHACHA20_POLY1305 ==
    [key_len |-> KEY_LEN,
     id |-> "CHACHA20_POLY1305",
     max_input_len |-> max_input_len(CHACHA_BLOCK_LEN, OVERHEAD_BLOCKS)]

\* polyfill try_into_ of a slice to &[u8; n]: fails unless the length is n
TryIntoArray(s, n) ==
    IF Len(s) = n THEN [state |-> "Ok", key |-> s] ELSE [state |-> "Err", key |-> <<>>]

\* an initialiser that takes the first KEY_LEN bytes of a longer input
chacha20_poly1305_init_AtLeast(key_bytes) ==
    IF Len(key_bytes) >= KEY_LEN
    THEN [state |-> "Ok", key |-> SliceTo(key_bytes, KEY_LEN)]
    ELSE [state |-> "Err", key |-> <<>>]

\* chacha20_poly1305_init: Ok(KeyInner::ChaCha20Poly1305(key)) or
\* Err(error::Unspecified)
chacha20_poly1305_init(key_bytes) == TryIntoArray(key_bytes, CHACHA20_POLY1305.key_len)

\* Block::zero() followed by partial_copy_from(src)
BlockPartialCopy(src) == [i \in 1..BLOCK_LEN |-> IF i <= Len(src) THEN src[i] ELSE 0]

\* Block::from_u64_le(a, b)
BlockFromU64LE(a, b) == a \o b

\* a padding helper that feeds a padded block even when nothing remains
poly1305_update_padded_16_AlwaysPad(c, input) ==
    LET remainder_len == Len(input) % BLOCK_LEN
        whole_len == Len(input) - remainder_len
        c1 == IF whole_len > 0 THEN update_blocks(c, SliceTo(input, whole_len)) ELSE c
    IN update_block(c1, BlockPartialCopy(SliceFrom(input, whole_len)))

\* poly1305_update_padded_16
poly1305_update_padded_16(c, input) ==
    LET remainder_len == Len(input) % BLOCK_LEN
        whole_len == Len(input) - remainder_len
        c1 == IF whole_len > 0 THEN update_blocks(c, SliceTo(input, whole_len)) ELSE c
    IN IF remainder_len > 0
       THEN update_block(c1, BlockPartialCopy(SliceFrom(input, whole_len)))
       ELSE c1

\* derive_poly1305_key: the keystream at iv over KEY_BLOCKS zero blocks
derive_poly1305_key(chacha_key, iv) ==
    chacha20_xor_in_place(chacha_key, iv, Zeros(KEY_BLOCKS * BLOCK_LEN))

\* Direction::Sealing and Direction::Opening { in_prefix_len }
Sealing == [kind |-> "Sealing"]

Opening(p) == [kind |-> "Opening", in_prefix_len |-> p]

\* both arms run the cipher first, so open authenticates plaintext
ArmOrder_CipherFirst(dir) ==
    IF dir.kind = "Opening" THEN <<"open_xor", "open_mac">> ELSE <<"seal_xor", "seal_mac">>

\* the order of the two steps in each arm of aead()'s match on direction
ArmOrder(dir) ==
    IF dir.kind = "Opening" THEN <<"open_mac", "open_xor">> ELSE <<"seal_xor", "seal_mac">>

\* the tag of a call that has returned none
NoTag == [key |-> <<>>, msg |-> <<>>]

\* a wrapper that reports failure
OkTag_Unspecified(tag) == [state |-> "Err", tag |-> NoTag]

\* Ok(aead(...)) of chacha20_poly1305_seal and chacha20_poly1305_open
OkTag(tag) == [state |-> "Ok", tag |-> tag]

(* ------------------------------ inputs ---------------------------------- *)

KeyInputs == {Rep(b, n) : b \in {3, 200}, n \in 0..MaxKeyLen}

NonceInputs == {Rep(b, 12) : b \in {0, 9}}

AdInputs == {Pattern(5, n) : n \in 0..MaxAdLen}

BufInputs == {Pattern(64, n) : n \in 0..MaxLen}

\* the same buffer with other bytes in its first p places
OtherPrefix(buf, p) == [i \in 1..Len(buf) |-> IF i <= p THEN Xor8(buf[i], 255) ELSE buf[i]]

(* ------------------------------- state ---------------------------------- *)

VARIABLES
    pc,          \* where the caller or the running aead() call stands
    key_bytes,   \* the bytes handed to chacha20_poly1305_init
    key,         \* the result of chacha20_poly1305_init
    nonce,       \* aead()'s nonce argument
    ad,          \* aead()'s ad argument
    in_out,      \* the caller's buffer
    direction,   \* aead()'s direction argument
    counter,     \* aead()'s local counter
    ctx,         \* aead()'s local poly1305 context
    in_out_len,  \* aead()'s local in_out_len
    ret,         \* what the last seal or open returned
    entry,       \* the buffer as it was when the running call was entered
    cipher_log,  \* the stream cipher calls of the running call, in order
    last,        \* the call completed before the running one
    test_ok      \* the outcome of tests::max_input_len_test

vars == <<pc, key_bytes, key, nonce, ad, in_out, direction, counter, ctx, in_out_len, ret,
          entry, cipher_log, last, test_ok>>

NoRet == [state |-> "none", tag |-> NoTag]

NoCall == [valid |-> FALSE, direction |-> Sealing, nonce |-> <<>>, ad |-> <<>>,
           entry |-> <<>>, out |-> <<>>, ret |-> NoRet]

Init ==
    /\ pc = "new"
    /\ key_bytes = <<>>
    /\ key = [state |-> "none", key |-> <<>>]
    /\ nonce = <<>>
    /\ ad = <<>>
    /\ in_out = <<>>
    /\ direction = Sealing
    /\ counter = CounterZero(<<>>)
    /\ ctx = Poly1305FromKey(<<>>)
    /\ in_out_len = 0
    /\ ret = NoRet
    /\ entry = <<>>
    /\ cipher_log = <<>>
    /\ last = NoCall
    /\ test_ok = "not run"

(* ------------------------------ actions --------------------------------- *)

\* tests::max_input_len_test
MaxInputLenTest ==
    /\ pc = "new"
    /\ LET lit == U64FromDecimal(<<2, 7, 4, 8, 7, 7, 9, 0, 6, 8, 8, 0>>)
       IN test_ok' = IF CHACHA20_POLY1305.max_input_len.limbs = lit.limbs
                     THEN "passed" ELSE "failed"
    /\ pc' = "tested"
    /\ UNCHANGED <<key_bytes, key, nonce, ad, in_out, direction, counter, ctx,
                   in_out_len, ret, entry, cipher_log, last>>

\* the caller builds a key: (CHACHA20_POLY1305.init)(key_bytes)
Initialize ==
    /\ pc = "new"
    /\ \E kb \in KeyInputs :
         /\ key_bytes' = kb
         /\ key' = chacha20_poly1305_init(kb)
    /\ pc' = IF key'.state = "Ok" THEN "ready" ELSE "init_failed"
    /\ UNCHANGED <<nonce, ad, in_out, direction, counter, ctx, in_out_len, ret,
                   entry, cipher_log, last, test_ok>>

\* entry of aead(): the arguments are bound, nothing has run
Enter(n, a, buf, dir, prev) ==
    /\ key.state = "Ok"
    /\ nonce' = n
    /\ ad' = a
    /\ in_out' = buf
    /\ entry' = buf
    /\ direction' = dir
    /\ counter' = CounterZero(<<>>)
    /\ ctx' = Poly1305FromKey(<<>>)
    /\ in_out_len' = 0
    /\ ret' = NoRet
    /\ cipher_log' = <<>>
    /\ last' = prev
    /\ pc' = "derive"
    /\ UNCHANGED <<key_bytes, key, test_ok>>

\* the completed call, as the next call's predecessor
Completed ==
    [valid |-> TRUE, direction |-> direction, nonce |-> nonce, ad |-> ad,
     entry |-> entry, out |-> in_out, ret |-> ret]

\* chacha20_poly1305_seal on fresh arguments
CallSeal ==
    /\ pc = "ready"
    /\ \E n \in NonceInputs, a \in AdInputs, buf \in BufInputs :
         Enter(n, a, buf, Sealing, NoCall)

\* chacha20_poly1305_open on fresh arguments
CallOpen ==
    /\ pc = "ready"
    /\ \E n \in NonceInputs, a \in AdInputs, buf \in BufInputs, p \in 0..MaxPrefix :
         Enter(n, a, buf, Opening(p), NoCall)

\* chacha20_poly1305_open on the buffer a seal has just left, same nonce and ad
CallOpenSealed ==
    /\ pc = "done"
    /\ direction.kind = "Sealing"
    /\ Enter(nonce, ad, in_out, Opening(0), Completed)

\* chacha20_poly1305_open on the ciphertext of a first open just completed,
\* the bytes before it replaced by others
CallOpenOtherPrefix ==
    /\ pc = "done"
    /\ ~last.valid
    /\ direction.kind = "Opening"
    /\ direction.in_prefix_len > 0
    /\ Enter(nonce, ad, OtherPrefix(entry, direction.in_prefix_len), direction, Completed)

\* what a step of the running call leaves alone
Args == <<key_bytes, key, nonce, ad, direction, entry, last, test_ok>>

\* the key derivation with the counter left at block 0
DeriveKey_NoIncrement ==
    /\ pc = "derive"
    /\ LET zero == CounterZero(nonce)
       IN /\ counter' = zero
          /\ ctx' = Poly1305FromKey(derive_poly1305_key(key.key, zero))
          /\ cipher_log' = Append(cipher_log,
                 [use |-> "derive", ctr |-> zero.ctr, len |-> KEY_BLOCKS * BLOCK_LEN])
    /\ pc' = "ad"
    /\ UNCHANGED <<Args, in_out, in_out_len, ret>>

\* let mut counter = Counter::zero(nonce); the one-time key is derived at
\* counter.increment() and the context built from it
DeriveKey ==
    /\ pc = "derive"
    /\ LET zero == CounterZero(nonce)
           inc == CounterIncrement(zero)
       IN /\ counter' = inc.counter
          /\ ctx' = Poly1305FromKey(derive_poly1305_key(key.key, inc.iv))
          /\ cipher_log' = Append(cipher_log,
                 [use |-> "derive", ctr |-> inc.iv.ctr, len |-> KEY_BLOCKS * BLOCK_LEN])
    /\ pc' = "ad"
    /\ UNCHANGED <<Args, in_out, in_out_len, ret>>

\* poly1305_update_padded_16(&mut ctx, ad), then the match on direction
FeedAd ==
    /\ pc = "ad"
    /\ ctx' = poly1305_update_padded_16(ctx, ad)
    /\ pc' = ArmOrder(direction)[1]
    /\ UNCHANGED <<Args, in_out, counter, in_out_len, ret, cipher_log>>

\* the label after a step of the match arm
AfterArmStep(label) ==
    IF ArmOrder(direction)[1] = label THEN ArmOrder(direction)[2] ELSE "len"

\* an open that feeds the whole buffer, prefix included, to the MAC
OpenMac_WholeBuffer ==
    /\ pc = "open_mac"
    /\ IF direction.in_prefix_len > Len(in_out)
       THEN /\ pc' = "panicked"
            /\ UNCHANGED ctx
       ELSE /\ ctx' = poly1305_update_padded_16(ctx, in_out)
            /\ pc' = AfterArmStep("open_mac")
    /\ UNCHANGED <<Args, in_out, counter, in_out_len, ret, cipher_log>>

\* Opening: poly1305_update_padded_16(&mut ctx, &in_out[in_prefix_len..]);
\* the slice panics when in_prefix_len exceeds the buffer's length
OpenMac ==
    /\ pc = "open_mac"
    /\ IF direction.in_prefix_len > Len(in_out)
       THEN /\ pc' = "panicked"
            /\ UNCHANGED ctx
       ELSE /\ ctx' = poly1305_update_padded_16(ctx, SliceFrom(in_out, direction.in_prefix_len))
            /\ pc' = AfterArmStep("open_mac")
    /\ UNCHANGED <<Args, in_out, counter, in_out_len, ret, cipher_log>>

\* an open that decrypts in place, reading from offset 0
OpenXor_InPlace ==
    /\ pc = "open_xor"
    /\ IF direction.in_prefix_len > Len(in_out)
       THEN /\ pc' = "panicked"
            /\ UNCHANGED <<in_out, in_out_len, cipher_log>>
       ELSE /\ in_out' = chacha20_xor_in_place(key.key, counter, in_out)
            /\ in_out_len' = Len(in_out) - direction.in_prefix_len
            /\ cipher_log' = Append(cipher_log,
                   [use |-> "xor", ctr |-> counter.ctr,
                    len |-> Len(in_out) - direction.in_prefix_len])
            /\ pc' = AfterArmStep("open_xor")
    /\ UNCHANGED <<Args, counter, ctx, ret>>

\* Opening: chacha20_xor_overlapping(chacha20_key, counter, in_out, in_prefix_len)
\* and in_out.len() - in_prefix_len
OpenXor ==
    /\ pc = "open_xor"
    /\ IF direction.in_prefix_len > Len(in_out)
       THEN /\ pc' = "panicked"
            /\ UNCHANGED <<in_out, in_out_len, cipher_log>>
       ELSE /\ in_out' = chacha20_xor_overlapping(key.key, counter, in_out,
                                                  direction.in_prefix_len)
            /\ in_out_len' = Len(in_out) - direction.in_prefix_len
            /\ cipher_log' = Append(cipher_log,
                   [use |-> "xor", ctr |-> counter.ctr,
                    len |-> Len(in_out) - direction.in_prefix_len])
            /\ pc' = AfterArmStep("open_xor")
    /\ UNCHANGED <<Args, counter, ctx, ret>>

\* a seal that encrypts from block 0, the block of the one-time key
SealXor_FromBlockZero ==
    /\ pc = "seal_xor"
    /\ in_out' = chacha20_xor_in_place(key.key, CounterZero(nonce), in_out)
    /\ cipher_log' = Append(cipher_log,
           [use |-> "xor", ctr |-> 0, len |-> Len(in_out)])
    /\ pc' = AfterArmStep("seal_xor")
    /\ UNCHANGED <<Args, counter, ctx, in_out_len, ret>>

\* Sealing: chacha20_xor_in_place(chacha20_key, CounterOrIv::Counter(counter), in_out)
SealXor ==
    /\ pc = "seal_xor"
    /\ in_out' = chacha20_xor_in_place(key.key, counter, in_out)
    /\ cipher_log' = Append(cipher_log,
           [use |-> "xor", ctr |-> counter.ctr, len |-> Len(in_out)])
    /\ pc' = AfterArmStep("seal_xor")
    /\ UNCHANGED <<Args, counter, ctx, in_out_len, ret>>

\* Sealing: poly1305_update_padded_16(&mut ctx, in_out) and in_out.len()
SealMac ==
    /\ pc = "seal_mac"
    /\ ctx' = poly1305_update_padded_16(ctx, in_out)
    /\ in_out_len' = Len(in_out)
    /\ pc' = AfterArmStep("seal_mac")
    /\ UNCHANGED <<Args, in_out, counter, ret, cipher_log>>

\* a length block that takes the whole buffer's length for the ciphertext's
LenBlock_WholeBufferLen ==
    /\ pc = "len"
    /\ ctx' = update_block(ctx, BlockFromU64LE(U64LE(Len(ad)), U64LE(Len(in_out))))
    /\ pc' = "finish"
    /\ UNCHANGED <<Args, in_out, counter, in_out_len, ret, cipher_log>>

\* ctx.update_block(Block::from_u64_le(ad.len(), in_out_len), Pad::Pad)
LenBlock ==
    /\ pc = "len"
    /\ ctx' = update_block(ctx, BlockFromU64LE(U64LE(Len(ad)), U64LE(in_out_len)))
    /\ pc' = "finish"
    /\ UNCHANGED <<Args, in_out, counter, in_out_len, ret, cipher_log>>

\* ctx.finish(), returned by aead() and wrapped in Ok by seal or open
Finish ==
    /\ pc = "finish"
    /\ ret' = OkTag(PolyFinish(ctx))
    /\ pc' = "done"
    /\ UNCHANGED <<Args, in_out, counter, ctx, in_out_len, cipher_log>>

Next ==
    \/ MaxInputLenTest
    \/ Initialize
    \/ CallSeal
    \/ CallOpen
    \/ CallOpenSealed
    \/ CallOpenOtherPrefix
    \/ DeriveKey
    \/ FeedAd
    \/ OpenMac
    \/ OpenXor
    \/ SealXor
    \/ SealMac
    \/ LenBlock
    \/ Finish

Spec == Init /\ [][Next]_vars

(* ------------------------------ claims ---------------------------------- *)

\* data followed by zero bytes up to the next multiple of 16
Pad16(data) == data \o Zeros((BLOCK_LEN - (Len(data) % BLOCK_LEN)) % BLOCK_LEN)

\* the counter value RFC 7539 gives the first block XORed into the message
BlockOne == [ctr |-> 1, nonce |-> nonce]

\* the ciphertext of the running call: what open was handed after the prefix,
\* what seal's encryption of the entry buffer is
Ciphertext ==
    IF direction.kind = "Opening"
    THEN SliceFrom(entry, direction.in_prefix_len)
    ELSE [i \in 1..Len(entry) |-> Xor8(entry[i], KeystreamAt(key.key, BlockOne, i - 1))]

\* the running call's cipher step over the buffer has run
XorDone == \E i \in 1..Len(cipher_log) : cipher_log[i].use = "xor"

\* an open whose in_prefix_len lies within the buffer, or a seal
WellFormed == direction.kind = "Opening" => direction.in_prefix_len <= Len(entry)

InCall == pc \in {"derive", "ad", "open_mac", "open_xor", "seal_xor", "seal_mac",
                  "len", "finish", "done", "panicked"}

\* the running call opens, with in_prefix_len = 0, the buffer the previous call
\* sealed, under the same nonce and ad
OpensSealed ==
    /\ last.valid
    /\ last.direction.kind = "Sealing"
    /\ direction = Opening(0)
    /\ nonce = last.nonce
    /\ ad = last.ad
    /\ entry = last.out

\* C1: seal then open with in_prefix_len = 0 (same key, nonce, ad) leaves the
\* buffer equal to the plaintext, and open returns the tag seal returned.
C1_RoundTrip ==
    (pc = "done" /\ OpensSealed) =>
        /\ in_out = last.entry
        /\ ret.state = "Ok"
        /\ ret = last.ret

C1_Witness ==
    /\ pc = "done"
    /\ OpensSealed
    /\ Len(in_out) > BLOCK_LEN
    /\ Len(ad) > 0
    /\ last.out # last.entry

\* a step that feeds the message part of the buffer to the MAC
MacFeedStep == pc \in {"open_mac", "seal_mac"} /\ pc' \notin {pc, "panicked"}

\* C2: open feeds buffer[in_prefix_len..] to the MAC while the buffer is still
\* untouched by the cipher; seal feeds the buffer only after the cipher has
\* covered all of it; in both the bytes fed are the ciphertext.
C2_MacOverCiphertext ==
    [][MacFeedStep =>
        /\ in_out' = in_out
        /\ MacInput(ctx') = MacInput(ctx) \o Pad16(Ciphertext)
        /\ direction.kind = "Opening" => (~XorDone /\ in_out = entry)
        /\ direction.kind = "Sealing" =>
             /\ XorDone
             /\ cipher_log[Len(cipher_log)].len = Len(in_out)
             /\ in_out = Ciphertext]_vars

C2_Witness ==
    /\ pc = "open_xor"
    /\ OpensSealed
    /\ Len(entry) > BLOCK_LEN
    /\ Len(ctx.calls) > 0
    /\ in_out = entry
    /\ last.out # last.entry

\* C3: the bytes the MAC consumed between its initialisation and finish are
\* AAD, zero padding to 16, ciphertext, zero padding to 16, LE64(len(AAD)),
\* LE64(len(ciphertext)).
C3_MacInputLayout ==
    (pc \in {"finish", "done"}) =>
        /\ MacInput(ctx) = Pad16(ad) \o Pad16(Ciphertext)
                             \o U64LE(Len(ad)) \o U64LE(Len(Ciphertext))
        /\ pc = "done" => ret.tag.msg = MacInput(ctx)
        /\ direction.kind = "Opening" =>
             Len(Ciphertext) = Len(entry) - direction.in_prefix_len
        /\ direction.kind = "Sealing" => Ciphertext = in_out

C3_Witness ==
    /\ pc = "done"
    /\ direction.kind = "Opening"
    /\ direction.in_prefix_len > 0
    /\ Len(ad) % BLOCK_LEN > 0
    /\ in_out_len > BLOCK_LEN
    /\ Len(ret.tag.msg) = 4 * BLOCK_LEN

\* C4: after open with in_prefix_len > 0 the first len - in_prefix_len bytes of
\* the buffer are the ciphertext XOR the keystream from counter 1, the regions
\* overlapping or not.
C4_OverlappingOpen ==
    (pc \in {"len", "finish", "done"} /\ direction.kind = "Opening"
        /\ direction.in_prefix_len > 0 /\ XorDone) =>
        LET p == direction.in_prefix_len
            n == Len(entry) - p
        IN /\ Len(in_out) = Len(entry)
           /\ \A i \in 1..n :
                in_out[i] = Xor8(entry[p + i], KeystreamAt(key.key, BlockOne, i - 1))

C4_Witness ==
    /\ pc = "done"
    /\ direction.kind = "Opening"
    /\ direction.in_prefix_len > 0
    /\ Len(entry) - direction.in_prefix_len > direction.in_prefix_len
    /\ SliceTo(in_out, in_out_len) # SliceTo(entry, in_out_len)

\* C5: initialize succeeds exactly when the key is 32 bytes long; any other
\* length gives the one error value and no key.
C5_InitKeyLength ==
    (pc \notin {"new", "tested"}) =>
        /\ key.state = "Ok" <=> Len(key_bytes) = 32
        /\ key.state = "Ok" => key.key = key_bytes
        /\ key.state # "Ok" => (key = [state |-> "Err", key |-> <<>>] /\ pc = "init_failed")

C5_Witness == pc = "init_failed" /\ Len(key_bytes) > 32

\* a step of the running call
CallStep ==
    DeriveKey \/ FeedAd \/ OpenMac \/ OpenXor \/ SealXor \/ SealMac \/ LenBlock \/ Finish

\* C6 as stated: whatever in_prefix_len is, a seal or open call never stops
\* part-way.
C6_NeverStopsPartWay == InCall => pc # "panicked"

\* C6 amended: a seal, or an open whose in_prefix_len is at most the buffer's
\* length, always has a next step until it is done, has then run the cipher
\* over the buffer and returns Ok(tag).
C6_TotalWhenPrefixFits ==
    (InCall /\ WellFormed) =>
        /\ pc # "panicked"
        /\ pc # "done" => ENABLED CallStep
        /\ pc = "done" =>
             /\ ret = [state |-> "Ok", tag |-> PolyFinish(ctx)]
             /\ XorDone
             /\ Len(in_out) = Len(entry)

C6_Witness ==
    /\ pc = "done"
    /\ direction.kind = "Opening"
    /\ direction.in_prefix_len = Len(entry)
    /\ direction.in_prefix_len > 0

\* C7: the descriptor's max_input_len is 2^38 - 64 = 274,877,906,880, computed
\* without a borrow or a carry out of 64 bits.
C7_MaxInputLen ==
    (test_ok # "not run") =>
        /\ test_ok = "passed"
        /\ CHACHA20_POLY1305.max_input_len.carry = 0
        /\ CHACHA20_POLY1305.max_input_len.limbs = <<192, 255, 255, 255, 63, 0, 0, 0>>

C7_Witness == pc = "tested" /\ test_ok = "passed"

\* C8: the one-time key is the keystream at counter 0, the counter is then 1,
\* and the only other cipher call runs over the buffer from counter 1.
C8_CounterDiscipline ==
    (InCall /\ pc # "derive") =>
        /\ Len(cipher_log) \in {1, 2}
        /\ cipher_log[1] = [use |-> "derive", ctr |-> 0, len |-> 32]
        /\ ctx.key = [i \in 1..32 |->
                        KeystreamByte(KeyMix(key.key), NonceMix(nonce), 0, i - 1)]
        /\ counter = BlockOne
        /\ \A i \in 2..Len(cipher_log) :
             /\ cipher_log[i].use = "xor"
             /\ cipher_log[i].ctr = 1
        /\ XorDone =>
             \A i \in 1..cipher_log[2].len :
                LET src == IF direction.kind = "Opening"
                           THEN entry[direction.in_prefix_len + i] ELSE entry[i]
                IN in_out[i] = Xor8(src, KeystreamByte(KeyMix(key.key), NonceMix(nonce), 1, i - 1))

C8_Witness ==
    /\ pc = "done"
    /\ Len(cipher_log) = 2
    /\ cipher_log[2].len > BLOCK_LEN
    /\ in_out # entry

IsBlocks(c) == c.kind = "blocks"

IsBlock(c) == c.kind = "block"

\* a step that runs poly1305_update_padded_16
PaddedFeedStep == pc \in {"ad", "open_mac", "seal_mac"} /\ pc' \notin {pc, "panicked"}

\* the data that step is handed
FedData ==
    IF pc = "ad" THEN ad
    ELSE IF pc = "open_mac" THEN SliceFrom(in_out, direction.in_prefix_len)
    ELSE in_out

\* C9: feed_padded leaves its data alone, makes one whole-block call over the
\* first len - len mod 16 bytes unless that is 0, and one padded-block call
\* (remainder then zeros) exactly when len mod 16 > 0.
C9_FeedPadded ==
    [][PaddedFeedStep =>
        LET data == FedData
            r == Len(data) % 16
            w == Len(data) - r
            new == SubSeq(ctx'.calls, Len(ctx.calls) + 1, Len(ctx'.calls))
        IN /\ ad' = ad
           /\ in_out' = in_out
           /\ ctx'.key = ctx.key
           /\ SubSeq(ctx'.calls, 1, Len(ctx.calls)) = ctx.calls
           /\ Len(SelectSeq(new, IsBlocks)) = (IF w > 0 THEN 1 ELSE 0)
           /\ Len(SelectSeq(new, IsBlock)) = (IF r > 0 THEN 1 ELSE 0)
           /\ w > 0 => new[1] = [kind |-> "blocks", data |-> SubSeq(data, 1, w)]
           /\ r > 0 => new[Len(new)] =
                [kind |-> "block", data |-> SubSeq(data, w + 1, Len(data)) \o Zeros(16 - r)]
           /\ (r = 0 /\ w > 0) => ctx' = update_blocks(ctx, data)
           /\ Len(data) = 0 => ctx' = ctx]_vars

C9_Witness ==
    /\ pc = "done"
    /\ Len(ad) > BLOCK_LEN
    /\ Len(ad) % BLOCK_LEN > 0
    /\ in_out_len = BLOCK_LEN
    /\ Len(ctx.calls) = 4

\* the running open has the previous open's nonce, ad, in_prefix_len and
\* bytes after the prefix
SameButPrefix ==
    /\ last.valid
    /\ direction.kind = "Opening"
    /\ last.direction = direction
    /\ nonce = last.nonce
    /\ ad = last.ad
    /\ Len(entry) = Len(last.entry)
    /\ direction.in_prefix_len <= Len(entry)
    /\ SliceFrom(entry, direction.in_prefix_len) = SliceFrom(last.entry, direction.in_prefix_len)

\* C10: two opens that differ only in the bytes before in_prefix_len return the
\* same tag and leave the same first len - in_prefix_len bytes.
C10_PrefixNonInterference ==
    (pc = "done" /\ SameButPrefix) =>
        /\ ret = last.ret
        /\ SliceTo(in_out, in_out_len) = SliceTo(last.out, in_out_len)

C10_Witness ==
    /\ pc = "done"
    /\ SameButPrefix
    /\ direction.in_prefix_len > 0
    /\ in_out_len > BLOCK_LEN
    /\ \A i \in 1..direction.in_prefix_len : entry[i] # last.entry[i]

====
